---- MODULE Spec2Model ----
(***************************************************************************)
(* A model of package conduit: a Chain of one Producer, a pipe of Conduits *)
(* and one Consumer.  Every Conduit and the Producer run in a goroutine of *)
(* their own, the Consumer runs on the goroutine that called Run; adjacent *)
(* stages are connected by buffered channels of capacity sz.               *)
(*                                                                         *)
(* Stage numbering of a run: 0 is the producer goroutine, i in 1..n is the *)
(* goroutine of pipe[i], n+1 is the goroutine that called Run (it runs the *)
(* Consumer).  Channel 0 is c1 of Run; channel i is the trg that runPipe    *)
(* makes for pipe[i]; channel n is the c2 the Consumer reads.              *)
(***************************************************************************)
EXTENDS Integers, Sequences, FiniteSets, Bags, TLC

\* Bounds of the model.
\* The longest pipe, the largest channel capacity, the most items a Producer
\* holds: under Spec,
MaxPipe == 2
MaxCap == 2
MaxData == 3
\* under FairSpec,
MaxPipeFair == 2
MaxCapFair == 1
MaxDataFair == 3
\* and under SpecRerun, with the number of calls of Run on the one Chain.
MaxPipeRerun == 1
MaxCapRerun == 1
MaxDataRerun == 2
MaxRuns == 2
\* and under SpecCompose, where the Conduits change the items.
MaxPipeCompose == 2
MaxCapCompose == 1
MaxDataCompose == 3
\* and under SpecNew, where NewChain is called with any arguments.
MaxPipeNew == 1
MaxCapNew == 2
MaxDataNew == 2
\* For the Utf8Conduit: the capacity of its trg, the most characters of a
\* valid text (SpecUtf8Text), the most bytes of any input (SpecUtf8Bytes).
MaxCapUtf8 == 1
MaxChars == 2
MaxBytes == 4
\* The most bytes of an input that has an empty chunk (SpecUtf8Empty).
MaxBytesEmpty == 3
\* Chains with a BufConduit (SpecBuf); bufSize is the size of its batches.
MaxPipeBuf == 2
MaxCapBuf == 1
MaxDataBuf == 3
bufSize == 2
\* Chains with channels of capacity 0 (FairSpecZero).
MaxPipeZero == 2
MaxDataZero == 3

\* The stage bodies.  A body is called through its interface (Produce,
\* Conduct, Consume) and returns nil or an error:
\*   - the Producer sends the items of src in order and returns nil when they
\*     are exhausted (BaseProducer, Generic at io.EOF), or returns an error
\*     before any send (Generic, when Generate returns an error);
\*   - a Conduit forwards every item it receives and returns nil when its
\*     source is closed and drained, or returns an error on an item
\*     (ErrConduit, when rand.Int()%10 is 0; Transformer, when Transform fails);
\*   - the Consumer records every item and returns nil when its source is
\*     closed and drained, or returns an error on an item.
\* BaseConduit, Identity and BaseConsumer are the bodies that never take the
\* error branch: their runs are the runs in which err stays nil.
ConduitKinds == {"ErrConduit"}

\* Conduits that change the items: SqrConduit sends n * n for every n it
\* receives and never returns an error; a Transformer sends what its
\* Transform makes of the item, here the successor, or returns the error of
\* its Transform.
ComposeKinds == {"SqrConduit", "Transformer"}

\* Conduits that pass the items on as they are: BaseConduit sends every item
\* when it has received it, BufConduit collects bufSize items before it
\* sends them; neither returns an error.
BufKinds == {"BaseConduit", "BufConduit"}

\* What a Conduit of the given kind sends for the item v it has received.
Conduct_fn(kind, v) ==
    CASE kind = "SqrConduit" -> v * v
      [] kind = "Transformer" -> v + 1
      [] OTHER -> v

\* Whether the body of a Conduit of the given kind can return an error.
MayFail(kind) == IF kind \in {"SqrConduit", "BaseConduit"} THEN {FALSE} ELSE BOOLEAN

VARIABLES
    pipe,    \* Chain.pipe: the kinds of the Conduits, in order
    sz,      \* Chain.sz: buffer size of every channel
    src,     \* BaseProducer.src: the items the Producer emits in a run
    Errs,    \* Chain.Errs: sequence of [run, stage], the origin of each error
    e,       \* Chain.e
    door,    \* Chain.door: TRUE while the mutex is held
    run,     \* number of calls of Run so far (0: not yet run)
    feed,    \* feed[r][j]: buffered items of channel j of run r
    closed,  \* closed[r][j]: channel j of run r is closed
    pc,      \* pc[r][i]: position of stage i of run r
    hold,    \* hold[r][i]: the item v a Conduit has received and not yet sent
    buf,     \* buf[r][i]: BufConduit, the items buf[j..i) collected and not yet sent
    pidx,    \* pidx[r]: number of items the Producer of run r has sent
    recvd,   \* recvd[r]: BaseConsumer.recvd, the items consumed in run r
    err,     \* err[r][i]: err / perr / cerr, what the body of stage i returned
             \*            ("running" while it has not returned)
    ret,     \* ret[r]: what Run returned ("none" while it has not)
    args,    \* the arguments p, pipe, c, sz of NewChain
    ch,      \* what NewChain returned: "nil" or "Chain" ("none": not yet called)
    inp,     \* Utf8Conduit: the chunks of bytes still to come on src
    orig,    \* Utf8Conduit: all the bytes that were put on src
    upc,     \* Utf8Conduit: position of Conduct
    b2,      \* Utf8Conduit: b2, the chunk behind what addLeftOver has used
    lo,      \* Utf8Conduit.lo: the UTFMax bytes of the leftover buffer
    idx,     \* Utf8Conduit.idx
    out,     \* Utf8Conduit: the chunks sent on trg and not yet received
    got,     \* the chunks the reader of trg has received
    tmp,     \* Utf8Conduit: the chunk Conduct is about to send on trg, if any
    peak,    \* the largest value idx has had
    bs0,     \* Utf8Conduit: bs, the chunk Conduct is working on
    sent     \* the chunks sent on trg so far, with the bytes they had when sent

\* The variables of the Chain and its runs,
chain == <<pipe, sz, src, Errs, e, door, run, feed, closed, pc, hold, buf,
           pidx, recvd, err, ret>>

\* of the construction,
construction == <<args, ch>>

\* and of the Utf8Conduit.
normalizer == <<inp, orig, upc, b2, lo, idx, out, got, tmp, peak, bs0, sent>>

vars == <<chain, construction, normalizer>>

config == <<pipe, sz, src>>

batch == <<buf>>

Runs == 1..MaxRuns

\* Stage numbers
N        == Len(pipe)
Prod     == 0
Cons     == N + 1
Conduits == 1..N
Stages   == 0..(N + 1)
Feeds    == 0..N

\* All pipes of at most n Conduits of the given kinds.
PipesOf(kinds, n) == UNION {[1..k -> kinds] : k \in 0..n}

Pipes(n) == PipesOf(ConduitKinds, n)

\* runPipe ranges over ch.pipe in order: goroutine i runs pipe[i], reading
\* channel i - 1 and writing channel i.
\* (Changed: the Conduits are chained in the reverse order.)
KindAt_reversed(i) == pipe[N + 1 - i]

KindAt(i) == pipe[i]

\* The test data: n distinct items (makeTestData, NumProducer).
makeTestData(n) == [i \in 1..n |-> i]

\* What a Generic producer emits from NewCounter(0, n): 0, 1, .., n - 1.
Counter(n) == [i \in 1..n |-> i - 1]

----------------------------------------------------------------------------
\* Channel operations (Go channel semantics).

\* trg <- v completes only while the buffer holds fewer than sz items.
\* (Changed: a send completes whatever the channel holds.)
CanSend_always(q) == TRUE

CanSend(q) == Len(q) < sz

\* trg <- v: the item is queued behind the items already buffered.
\* (Changed: the item is queued ahead of them.)
ChanSend_lifo(q, v) == <<v>> \o q

ChanSend(q, v) == Append(q, v)

\* v := <-src completes with an item while one is buffered.
CanRecv(q) == q /= <<>>

\* the item a receive takes: the oldest one.
\* (Changed: the receive takes the newest one.)
ChanHead_newest(q) == q[Len(q)]

ChanHead(q) == Head(q)

\* the buffer after a receive.
ChanRest(q) == Tail(q)

\* a receive (or range) observes closure: closed and drained.
\* (Changed: closure is observed with items still buffered.)
Drained_atClosure(q, cl) == cl

Drained(q, cl) == q = <<>> /\ cl

----------------------------------------------------------------------------
\* A Utf8Conduit as NewUtf8Conduit makes it, with nothing on its src.
Utf8Idle ==
    /\ inp = <<>>
    /\ orig = <<>>
    /\ upc = "done"
    /\ b2 = <<>>
    /\ lo = <<0, 0, 0, 0>>
    /\ idx = 0
    /\ out = <<>>
    /\ got = <<>>
    /\ tmp = <<>>
    /\ peak = 0
    /\ bs0 = <<>>
    /\ sent = <<>>

\* NewChain: the state after construction.
ChainWith(pipes, caps, data) ==
    /\ pipe \in pipes
    /\ sz \in caps
    /\ src \in data
    /\ args = [p |-> "Producer", pipe |-> pipe, c |-> "Consumer", sz |-> sz]
    /\ ch = "Chain"
    /\ Errs = <<>>
    /\ e = FALSE
    /\ door = FALSE
    /\ run = 0
    /\ feed = [r \in Runs |-> [j \in 0..Len(pipe) |-> <<>>]]
    /\ closed = [r \in Runs |-> [j \in 0..Len(pipe) |-> FALSE]]
    /\ pc = [r \in Runs |-> [i \in 0..(Len(pipe) + 1) |-> "off"]]
    /\ hold = [r \in Runs |-> [i \in 0..(Len(pipe) + 1) |-> 0]]
    /\ buf = [r \in Runs |-> [i \in 0..(Len(pipe) + 1) |-> <<>>]]
    /\ pidx = [r \in Runs |-> 0]
    /\ recvd = [r \in Runs |-> <<>>]
    /\ err = [r \in Runs |-> [i \in 0..(Len(pipe) + 1) |-> "running"]]
    /\ ret = [r \in Runs |-> "none"]

\* with buffered channels.
ChainOf(pipes, maxCap, data) == ChainWith(pipes, 1..maxCap, data)

NewChainOf(pipes, maxCap, data) == Utf8Idle /\ ChainOf(pipes, maxCap, data)

NewChain(maxPipe, maxCap, maxData) ==
    NewChainOf(Pipes(maxPipe), maxCap, {makeTestData(n) : n \in 0..maxData})

Init == NewChain(MaxPipe, MaxCap, MaxData)

InitFair == NewChain(MaxPipeFair, MaxCapFair, MaxDataFair)

InitRerun == NewChain(MaxPipeRerun, MaxCapRerun, MaxDataRerun)

----------------------------------------------------------------------------
\* Package unicode/utf8, as far as Utf8Conduit uses it.  A byte is a number
\* in 0..255, a chunk a sequence of bytes.

\* utf8.UTFMax
UTFMax == 4

\* u.inv: utf8.EncodeRune(u.inv, utf8.RuneError), the encoding of U+FFFD.
inv == <<239, 191, 189>>

\* The number of bytes of the encoding a first byte announces; 0 for a byte
\* that cannot begin an encoding (0x80..0xC1, 0xF5..0xFF).
Need(b) ==
    IF b < 128 THEN 1
    ELSE IF b \in 194..223 THEN 2
    ELSE IF b \in 224..239 THEN 3
    ELSE IF b \in 240..244 THEN 4
    ELSE 0

\* The second bytes a first byte accepts.
Accept(b) ==
    IF b = 224 THEN 160..191
    ELSE IF b = 237 THEN 128..159
    ELSE IF b = 240 THEN 144..191
    ELSE IF b = 244 THEN 128..143
    ELSE 128..191

\* A continuation byte.
IsCont(b) == b \in 128..191

\* utf8.RuneStart
RuneStart(b) == ~IsCont(b)

\* p begins with a complete valid encoding.
ValidAt(p) ==
    /\ p /= <<>>
    /\ Need(p[1]) >= 1
    /\ Len(p) >= Need(p[1])
    /\ Need(p[1]) >= 2 => p[2] \in Accept(p[1])
    /\ Need(p[1]) >= 3 => IsCont(p[3])
    /\ Need(p[1]) >= 4 => IsCont(p[4])

\* utf8.FullRune: p begins with a full encoding of a rune; an invalid
\* encoding counts as full (it converts as an error rune of width 1).
\* (Changed: an invalid encoding does not count as full.)
FullRune_validOnly(p) == ValidAt(p)

FullRune(p) ==
    /\ p /= <<>>
    /\ \/ Need(p[1]) = 0
       \/ Len(p) >= Need(p[1])
       \/ Len(p) > 1 /\ p[2] \notin Accept(p[1])
       \/ Len(p) > 2 /\ ~IsCont(p[3])

\* utf8.DecodeLastRune looks for the start of the last rune among the last
\* UTFMax bytes: the 0-based index where its loop stops, from st down to lim.
RECURSIVE LastStart(_, _, _)
LastStart(p, st, lim) ==
    IF st < lim THEN st
    ELSE IF RuneStart(p[st + 1]) THEN st
    ELSE LastStart(p, st - 1, lim)

\* r, _ := utf8.DecodeLastRune(p); r != utf8.RuneError.  The rune is
\* RuneError when p is empty, when the last bytes are no valid encoding
\* that ends where p ends, and when they encode U+FFFD itself.
LastRuneOK(p) ==
    /\ p /= <<>>
    /\ \/ p[Len(p)] < 128
       \/ LET lim   == IF Len(p) > UTFMax THEN Len(p) - UTFMax ELSE 0
              st    == LastStart(p, Len(p) - 2, lim)
              start == IF st < 0 THEN 0 ELSE st
              q     == SubSeq(p, start + 1, Len(p))
          IN  ValidAt(q) /\ Need(q[1]) = Len(q) /\ q /= inv

----------------------------------------------------------------------------
\* Utf8Conduit.

\* A chunk on trg is a slice: one that shares the array of u.lo (tmp of
\* addLeftOver, its first len bytes), or one with bytes of its own.
LoSlice(n) == [ref |-> "lo", len |-> n, bytes |-> <<>>]

OwnSlice(bytes) == [ref |-> "own", len |-> Len(bytes), bytes |-> bytes]

\* The bytes a reader finds in a chunk when it reads it: those of a slice
\* of u.lo are what u.lo holds at that moment.
Value(chunk) == IF chunk.ref = "lo" THEN SubSeq(lo, 1, chunk.len) ELSE chunk.bytes

\* A store that keeps the first of the bytes only.
Store_firstOnly(l0, i0, bytes) ==
    [lo  |-> [k \in 1..UTFMax |-> IF k = i0 + 1 /\ bytes /= <<>> THEN bytes[1] ELSE l0[k]],
     idx |-> IF bytes = <<>> THEN i0 ELSE i0 + 1,
     oob |-> i0 + 1 > UTFMax]

\* u.lo[u.idx] = b; u.idx++ for each of the bytes, from the buffer l0 and
\* the index i0.  A write at an index of UTFMax or more is out of range.
Store(l0, i0, bytes) ==
    [lo  |-> [k \in 1..UTFMax |->
                IF k > i0 /\ k <= i0 + Len(bytes) THEN bytes[k - i0] ELSE l0[k]],
     idx |-> i0 + Len(bytes),
     oob |-> i0 + Len(bytes) > UTFMax]

\* The loop of storeLeftOver: for ; l >= 0 && l > min; l-- that returns at
\* the first l at which bs[:l] ends with a valid rune.
RECURSIVE BackLoop(_, _, _)
BackLoop(bs, l, min) ==
    IF l >= 0 /\ l > min
    THEN IF LastRuneOK(SubSeq(bs, 1, l))
         THEN [found |-> TRUE, l |-> l]
         ELSE BackLoop(bs, l - 1, min)
    ELSE [found |-> FALSE, l |-> l]

\* A storeLeftOver that drops the leftover when the buffer is empty.
storeLeftOver_resets(bs, l0, i0) ==
    LET s    == Len(bs)
        keep == [lo |-> l0, idx |-> i0, oob |-> FALSE]
        put(l) == [l |-> l] @@ Store(l0, i0, SubSeq(bs, l + 1, s))
    IN  IF s = 0 THEN [l |-> 0, lo |-> l0, idx |-> 0, oob |-> FALSE]
        ELSE IF LastRuneOK(bs) THEN [l |-> s] @@ keep
        ELSE IF s - 1 = 0 THEN put(0)
        ELSE LET back == BackLoop(bs, s - 1, s - UTFMax)
             IN  IF back.found THEN put(back.l)
                 ELSE IF i0 = UTFMax THEN [l |-> s] @@ keep
                 ELSE put(back.l + 1)

\* storeLeftOver(bs) with u.lo = l0 and u.idx = i0: the l it returns and
\* the u.lo and u.idx it leaves.
storeLeftOver(bs, l0, i0) ==
    LET s    == Len(bs)
        keep == [lo |-> l0, idx |-> i0, oob |-> FALSE]
        put(l) == [l |-> l] @@ Store(l0, i0, SubSeq(bs, l + 1, s))
    IN  IF s = 0 THEN [l |-> 0] @@ keep
        ELSE IF LastRuneOK(bs) THEN [l |-> s] @@ keep
        ELSE IF s - 1 = 0 THEN put(0)
        ELSE LET back == BackLoop(bs, s - 1, s - UTFMax)
             IN  IF back.found THEN put(back.l)
                 ELSE IF i0 = UTFMax THEN [l |-> s] @@ keep
                 ELSE put(back.l + 1)

\* The loop of addLeftOver: for ; i < s && u.idx < UTFMax; i++, with tmp the
\* first ix bytes of the array of u.lo (append writes into that array).
RECURSIVE AddLoop(_, _, _, _, _)
AddLoop(bs, i, l0, ix, pk) ==
    IF i < Len(bs) /\ ix < UTFMax
    THEN LET l1 == [l0 EXCEPT ![ix + 1] = bs[i + 1]]
         IN  IF FullRune(SubSeq(l1, 1, ix + 1))
             THEN [n |-> i + 1, lo |-> l1, idx |-> 0, sent |-> <<LoSlice(ix + 1)>>, peak |-> pk]
             ELSE AddLoop(bs, i + 1, l1, ix + 1, IF ix + 1 > pk THEN ix + 1 ELSE pk)
    ELSE IF ix = UTFMax
         THEN [n |-> i, lo |-> l0, idx |-> 0, sent |-> <<OwnSlice(inv)>>, peak |-> pk]
         ELSE [n |-> Len(bs), lo |-> l0, idx |-> ix, sent |-> <<>>, peak |-> pk]

\* An addLeftOver that forgets the leftover and consumes nothing.
addLeftOver_forgets(bs, l0, i0) ==
    [n |-> 0, lo |-> l0, idx |-> 0, sent |-> <<>>, peak |-> peak]

\* addLeftOver(bs, trg) with u.lo = l0 and u.idx = i0: the n it returns,
\* the chunk it sends, if any, and the u.lo and u.idx it leaves.
addLeftOver(bs, l0, i0) ==
    IF i0 = 0
    THEN [n |-> 0, lo |-> l0, idx |-> 0, sent |-> <<>>, peak |-> peak]
    ELSE AddLoop(bs, 0, l0, i0, peak)

\* Conduct, for inp := range src: the next chunk arrives, and
\* n := u.addLeftOver(bs, trg); b2 := bs[n:], up to the send in addLeftOver.
Utf8_addLeftOver ==
    /\ upc = "range"
    /\ inp /= <<>>
    /\ LET bs == Head(inp)
           r  == addLeftOver(bs, lo, idx)
       IN  /\ inp' = Tail(inp)
           /\ lo' = r.lo
           /\ idx' = r.idx
           /\ peak' = r.peak
           /\ tmp' = r.sent
           /\ b2' = SubSeq(bs, r.n + 1, Len(bs))
           /\ bs0' = bs
           /\ upc' = IF r.sent /= <<>> THEN "send_tmp" ELSE "store"
    /\ UNCHANGED <<chain, construction, orig, out, got, sent>>

\* trg <- tmp and trg <- u.inv of addLeftOver, trg <- b2[:l] of Conduct:
\* the send completes while trg holds fewer chunks than its capacity.
Utf8_send ==
    /\ upc \in {"send_tmp", "send_b2"}
    /\ Len(out) < MaxCapUtf8
    /\ out' = out \o tmp
    /\ sent' = Append(sent, Value(tmp[1]))
    /\ tmp' = <<>>
    /\ upc' = IF upc = "send_tmp" THEN "store" ELSE "range"
    /\ bs0' = IF upc = "send_tmp" THEN bs0 ELSE <<>>
    /\ UNCHANGED <<chain, construction, inp, orig, b2, lo, idx, got, peak>>

\* l := u.storeLeftOver(b2), and the test len(b2[:l]) > 0.  A write
\* beyond u.lo ends the goroutine in a panic.
Utf8_storeLeftOver ==
    /\ upc = "store"
    /\ LET r == storeLeftOver(b2, lo, idx)
       IN  IF r.oob
           THEN /\ upc' = "panic"
                /\ UNCHANGED <<lo, idx, peak, tmp, b2, bs0>>
           ELSE /\ lo' = r.lo
                /\ idx' = r.idx
                /\ peak' = IF r.idx > peak THEN r.idx ELSE peak
                /\ tmp' = IF r.l > 0 THEN <<OwnSlice(SubSeq(b2, 1, r.l))>> ELSE <<>>
                /\ b2' = <<>>
                /\ bs0' = IF r.l > 0 THEN bs0 ELSE <<>>
                /\ upc' = IF r.l > 0 THEN "send_b2" ELSE "range"
    /\ UNCHANGED <<chain, construction, inp, orig, out, got, sent>>

\* The range loop ends, src is closed and drained: Conduct returns nil.
Utf8_return ==
    /\ upc = "range"
    /\ inp = <<>>
    /\ upc' = "done"
    /\ UNCHANGED <<chain, construction, inp, orig, b2, lo, idx, out, got, tmp, peak, bs0, sent>>

\* The reader of trg receives the next chunk and reads its bytes.
Utf8_recv ==
    /\ out /= <<>>
    /\ got' = Append(got, Value(Head(out)))
    /\ out' = Tail(out)
    /\ UNCHANGED <<chain, construction, inp, orig, upc, b2, lo, idx, tmp, peak, bs0, sent>>

\* The characters of the texts: one of each width, U+0041, U+00D0, U+2410
\* and U+10410, and the character U+FFFD.
Chars == {<<65>>, <<195, 144>>, <<226, 144, 144>>, <<240, 144, 144, 144>>, inv}

\* The bytes of the arbitrary inputs: an ASCII byte, a continuation byte, the
\* first byte of an encoding of four bytes, a byte no encoding contains.
Alphabet == {65, 144, 240, 255}

\* The valid texts of at most k characters.
RECURSIVE Texts(_)
Texts(k) ==
    IF k = 0 THEN {<<>>}
    ELSE LET T == Texts(k - 1) IN T \cup {t \o c : t \in T, c \in Chars}

\* The byte sequences of at most n bytes.
ByteSeqs(n) == UNION {[1..k -> Alphabet] : k \in 0..n}

\* bytes[from..] cut into chunks behind the positions in cuts.
RECURSIVE Split(_, _, _)
Split(bytes, from, cuts) ==
    IF from > Len(bytes) THEN <<>>
    ELSE LET later == {k \in cuts : k >= from}
             to    == IF later = {} THEN Len(bytes)
                      ELSE CHOOSE k \in later : \A m \in later : k <= m
         IN  <<SubSeq(bytes, from, to)>> \o Split(bytes, to + 1, cuts)

\* Every way of cutting the bytes into chunks of one byte or more.
Chunkings(bytes) == {Split(bytes, 1, cuts) : cuts \in SUBSET (1..(Len(bytes) - 1))}

\* The chunks with one empty chunk put in at any place.
WithEmpty(chunks) ==
    {SubSeq(chunks, 1, k) \o <<<<>>>> \o SubSeq(chunks, k + 1, Len(chunks)) :
        k \in 0..Len(chunks)}

\* A Utf8Conduit as NewUtf8Conduit makes it, whose src holds the chunks of
\* one of the inputs (one of them empty, if so asked) and is closed; beside
\* it a Chain that is not run.
Utf8Of(inputs, empty) ==
    /\ ChainOf({<<>>}, 1, {<<>>})
    /\ orig \in inputs
    /\ inp \in IF empty THEN UNION {WithEmpty(c) : c \in Chunkings(orig)}
               ELSE Chunkings(orig)
    /\ upc = "range"
    /\ b2 = <<>>
    /\ lo = <<0, 0, 0, 0>>
    /\ idx = 0
    /\ out = <<>>
    /\ got = <<>>
    /\ tmp = <<>>
    /\ peak = 0
    /\ bs0 = <<>>
    /\ sent = <<>>

InitUtf8Text == Utf8Of(Texts(MaxChars), FALSE)

InitUtf8Bytes == Utf8Of(ByteSeqs(MaxBytes), FALSE)

InitUtf8Empty == Utf8Of(ByteSeqs(MaxBytesEmpty), TRUE)

\* Before NewChain is called: its arguments, of which p and c may be nil
\* and pipe may be nil or empty (the empty sequence); no Chain yet.
InitNew ==
    /\ Utf8Idle
    /\ args \in [p : {"nil", "Producer"}, pipe : Pipes(MaxPipeNew),
                 c : {"nil", "Consumer"}, sz : 1..MaxCapNew]
    /\ ch = "none"
    /\ src \in {makeTestData(n) : n \in 0..MaxDataNew}
    /\ pipe = <<>>
    /\ sz = 0
    /\ Errs = <<>>
    /\ e = FALSE
    /\ door = FALSE
    /\ run = 0
    /\ feed = [r \in Runs |-> [j \in 0..0 |-> <<>>]]
    /\ closed = [r \in Runs |-> [j \in 0..0 |-> FALSE]]
    /\ pc = [r \in Runs |-> [i \in 0..1 |-> "off"]]
    /\ hold = [r \in Runs |-> [i \in 0..1 |-> 0]]
    /\ buf = [r \in Runs |-> [i \in 0..1 |-> <<>>]]
    /\ pidx = [r \in Runs |-> 0]
    /\ recvd = [r \in Runs |-> <<>>]
    /\ err = [r \in Runs |-> [i \in 0..1 |-> "running"]]
    /\ ret = [r \in Runs |-> "none"]

InitBuf == NewChainOf(PipesOf(BufKinds, MaxPipeBuf), MaxCapBuf,
                      {makeTestData(n) : n \in 0..MaxDataBuf})

\* NewChain with sz = 0: every make(chan interface{}, 0) of Run and runPipe
\* yields an unbuffered channel.
InitZero ==
    /\ Utf8Idle
    /\ ChainWith(PipesOf(BufKinds, MaxPipeZero), {0},
                 {makeTestData(n) : n \in 0..MaxDataZero})

InitCompose ==
    NewChainOf(PipesOf(ComposeKinds, MaxPipeCompose), MaxCapCompose,
               {Counter(n) : n \in 0..MaxDataCompose})

----------------------------------------------------------------------------
\* Chain.Run, the part before the Consumer is called.

\* reset, first statement: ch.Errs = nil (no lock is taken).
reset_Errs(r) ==
    /\ pc[r][Cons] = "off"
    /\ run' = r
    /\ Errs' = <<>>
    /\ pc' = [pc EXCEPT ![r][Cons] = "reset"]
    /\ UNCHANGED <<construction, normalizer, config, batch, e, door, feed, closed, hold, pidx, recvd, err, ret>>

\* reset, second statement: ch.e = false; then Run makes c1, runPipe makes
\* one channel per Conduit and starts its goroutine, Run starts the
\* producer goroutine and calls Consume.
Run_start(r) ==
    /\ pc[r][Cons] = "reset"
    /\ e' = FALSE
    /\ pc' = [pc EXCEPT ![r] = [i \in Stages |->
                 IF i = Prod THEN "produce"
                 ELSE IF i = Cons THEN "consume" ELSE "recv"]]
    /\ UNCHANGED <<construction, normalizer, config, batch, Errs, door, run, feed, closed, hold, pidx, recvd, err, ret>>

\* NewChain's test of its arguments: p == nil || c == nil.
\* (Changed: p == nil && c == nil.)
NilArg_both(a) == a.p = "nil" /\ a.c = "nil"

NilArg(a) == a.p = "nil" \/ a.c = "nil"

\* NewChain(p, pipe, c, sz): nil when p or c is nil, else a new Chain with
\* the given p, c, pipe and sz, with e false and Errs nil.
NewChain_call ==
    /\ ch = "none"
    /\ IF NilArg(args)
       THEN /\ ch' = "nil"
            /\ UNCHANGED chain
       ELSE /\ ch' = "Chain"
            /\ pipe' = args.pipe
            /\ sz' = args.sz
            /\ e' = FALSE
            /\ Errs' = <<>>
            /\ feed' = [r \in Runs |-> [j \in 0..Len(args.pipe) |-> <<>>]]
            /\ closed' = [r \in Runs |-> [j \in 0..Len(args.pipe) |-> FALSE]]
            /\ pc' = [r \in Runs |-> [i \in 0..(Len(args.pipe) + 1) |-> "off"]]
            /\ hold' = [r \in Runs |-> [i \in 0..(Len(args.pipe) + 1) |-> 0]]
            /\ buf' = [r \in Runs |-> [i \in 0..(Len(args.pipe) + 1) |-> <<>>]]
            /\ err' = [r \in Runs |-> [i \in 0..(Len(args.pipe) + 1) |-> "running"]]
            /\ UNCHANGED <<src, door, run, pidx, recvd, ret>>
    /\ UNCHANGED <<args, normalizer>>

\* A make(chan interface{}, ch.sz) of Run or runPipe yields nil for channel j
\* (the test `c1 == nil` of Run, `trg == nil` of runPipe): Run returns the
\* error.  runPipe has by then started the goroutines of the Conduits before
\* Conduit j, each right after its own channel was made.
AllocErrors == {"cannot create channel", "cannot run pipe"}

Run_allocFail(r, j) ==
    /\ pc[r][Cons] = "reset"
    /\ j \in Feeds
    /\ e' = FALSE
    /\ pc' = [pc EXCEPT ![r] = [i \in Stages |->
                 IF i = Cons THEN "returned"
                 ELSE IF i \in 1..(j - 1) THEN "recv" ELSE "off"]]
    /\ ret' = [ret EXCEPT ![r] = IF j = 0 THEN "cannot create channel" ELSE "cannot run pipe"]
    /\ UNCHANGED <<construction, normalizer, config, batch, Errs, door, run, feed, closed, hold, pidx, recvd, err>>

\* The first call of Run on the Chain.
Run_first == run = 0 /\ reset_Errs(1)

\* A later call of Run, after the previous call has returned.
Run_again ==
    /\ run >= 1
    /\ run < MaxRuns
    /\ pc[run][Cons] = "returned"
    /\ reset_Errs(run + 1)

----------------------------------------------------------------------------
\* Where a stage goes after addErr: the Producer and the Conduits to their
\* deferred close, Run to its test of ch.e.
\* (Changed: close is not deferred, a stage that failed ends without it.)
AfterAddErr_noClose(i) == IF i = Cons THEN "check" ELSE "done"

AfterAddErr(i) == IF i = Cons THEN "check" ELSE "close"

\* Where a stage goes when its body has returned an error: into addErr
\* (if err != nil { ch.addErr(err) }).
\* (Changed: the error is dropped, addErr is not called.)
AfterError_swallow(i) == IF i = Cons THEN "check" ELSE "close"

\* (Changed: a Conduit whose body met an error goes on to send and receive.)
AfterError_goesOn(i) == IF i \in Conduits THEN "send" ELSE "addErr"

\* (Changed: a Producer or Conduit whose body met an error closes its
\* channel and ends; only Run logs an error.)
AfterError_closeOnly(i) == IF i = Cons THEN "addErr" ELSE "close"

AfterError(i) == "addErr"

\* close(c1), close(trg): channel j of run r is closed.
\* (Changed: the producer goroutine does not close c1.)
CloseFeed_notProducer(r, j) == IF j = 0 THEN closed ELSE [closed EXCEPT ![r][j] = TRUE]

\* (Changed: the close of a channel closes the channel behind it as well.)
CloseFeed_next(r, j) ==
    [closed EXCEPT ![r] = [k \in DOMAIN closed[r] |-> IF k \in {j, j + 1} THEN TRUE ELSE @[k]]]

CloseFeed(r, j) == [closed EXCEPT ![r][j] = TRUE]

\* Chain.addErr, called by stage i of run r.
\* door.Lock(), and the test of ch.e
addErr_lock(r, i) ==
    /\ pc[r][i] = "addErr"
    /\ ~door
    /\ door' = TRUE
    /\ pc' = [pc EXCEPT ![r][i] = IF e THEN "append" ELSE "set_e"]
    /\ UNCHANGED <<construction, normalizer, config, batch, Errs, e, run, feed, closed, hold, pidx, recvd, err, ret>>

\* ch.e = true
addErr_set(r, i) ==
    /\ pc[r][i] = "set_e"
    /\ e' = TRUE
    /\ pc' = [pc EXCEPT ![r][i] = "append"]
    /\ UNCHANGED <<construction, normalizer, config, batch, Errs, door, run, feed, closed, hold, pidx, recvd, err, ret>>

\* ch.Errs = append(ch.Errs, err), and the deferred door.Unlock()
addErr_append(r, i) ==
    /\ pc[r][i] = "append"
    /\ Errs' = Append(Errs, [run |-> r, stage |-> i])
    /\ door' = FALSE
    /\ pc' = [pc EXCEPT ![r][i] = AfterAddErr(i)]
    /\ UNCHANGED <<construction, normalizer, config, batch, e, run, feed, closed, hold, pidx, recvd, err, ret>>

\* After addErr: the deferred close(c1) of the producer goroutine, the
\* deferred close(trg) of pipe2pipe.
close(r, i) ==
    /\ i \in Feeds
    /\ pc[r][i] = "close"
    /\ closed' = CloseFeed(r, i)
    /\ pc' = [pc EXCEPT ![r][i] = "done"]
    /\ UNCHANGED <<construction, normalizer, config, batch, Errs, e, door, run, feed, hold, pidx, recvd, err, ret>>

----------------------------------------------------------------------------
\* The Producer.

\* trg <- v for the next item of src.
Produce_send(r) ==
    /\ pc[r][Prod] = "produce"
    /\ pidx[r] < Len(src)
    /\ CanSend(feed[r][0])
    /\ feed' = [feed EXCEPT ![r][0] = ChanSend(@, src[pidx[r] + 1])]
    /\ pidx' = [pidx EXCEPT ![r] = @ + 1]
    /\ UNCHANGED <<construction, normalizer, config, batch, Errs, e, door, run, closed, pc, hold, recvd, err, ret>>

\* Produce returns nil when src is exhausted (Generate returned io.EOF);
\* perr is nil, and the deferred close(c1) ends the goroutine.
Produce_return(r) ==
    /\ pc[r][Prod] = "produce"
    /\ pidx[r] = Len(src)
    /\ err' = [err EXCEPT ![r][Prod] = "nil"]
    /\ closed' = CloseFeed(r, 0)
    /\ pc' = [pc EXCEPT ![r][Prod] = "done"]
    /\ UNCHANGED <<construction, normalizer, config, batch, Errs, e, door, run, feed, hold, pidx, recvd, ret>>

\* Generic.Produce returns the error Generate returned.
Produce_fail(r) ==
    /\ pc[r][Prod] = "produce"
    /\ err' = [err EXCEPT ![r][Prod] = "error"]
    /\ pc' = [pc EXCEPT ![r][Prod] = AfterError(Prod)]
    /\ UNCHANGED <<construction, normalizer, config, batch, Errs, e, door, run, feed, closed, hold, pidx, recvd, ret>>

----------------------------------------------------------------------------
\* The Conduits.

\* for v := range src: an item arrives; the Conduit goes on to send it, or
\* returns an error.
Conduct_recv(r, i) ==
    /\ i \in Conduits
    /\ KindAt(i) /= "BufConduit"
    /\ pc[r][i] = "recv"
    /\ CanRecv(feed[r][i - 1])
    /\ feed' = [feed EXCEPT ![r][i - 1] = ChanRest(@)]
    /\ \E failed \in MayFail(KindAt(i)) :
          /\ pc' = [pc EXCEPT ![r][i] = IF failed THEN AfterError(i) ELSE "send"]
          /\ hold' = [hold EXCEPT ![r][i] = IF failed THEN 0 ELSE ChanHead(feed[r][i - 1])]
          /\ err' = [err EXCEPT ![r][i] = IF failed THEN "error" ELSE @]
    /\ UNCHANGED <<construction, normalizer, config, batch, Errs, e, door, run, closed, pidx, recvd, ret>>

\* trg <- v, trg <- (n * n), trg <- oup
Conduct_send(r, i) ==
    /\ i \in Conduits
    /\ KindAt(i) /= "BufConduit"
    /\ pc[r][i] = "send"
    /\ CanSend(feed[r][i])
    /\ feed' = [feed EXCEPT ![r][i] = ChanSend(@, Conduct_fn(KindAt(i), hold[r][i]))]
    /\ hold' = [hold EXCEPT ![r][i] = 0]
    /\ pc' = [pc EXCEPT ![r][i] = "recv"]
    /\ UNCHANGED <<construction, normalizer, config, batch, Errs, e, door, run, closed, pidx, recvd, err, ret>>

\* the range loop ends: src is closed and drained; Conduct returns nil,
\* and the deferred close(trg) ends the goroutine.
Conduct_return(r, i) ==
    /\ i \in Conduits
    /\ KindAt(i) /= "BufConduit"
    /\ pc[r][i] = "recv"
    /\ Drained(feed[r][i - 1], closed[r][i - 1])
    /\ err' = [err EXCEPT ![r][i] = "nil"]
    /\ closed' = CloseFeed(r, i)
    /\ pc' = [pc EXCEPT ![r][i] = "done"]
    /\ UNCHANGED <<construction, normalizer, config, batch, Errs, e, door, run, feed, hold, pidx, recvd, ret>>

----------------------------------------------------------------------------
\* BufConduit.Conduct.

\* v := <-src with an item: buf[i] = v.(int); i++, and at the top of the
\* loop the test i == bufSize.
Buf_recv(r, i) ==
    /\ i \in Conduits
    /\ KindAt(i) = "BufConduit"
    /\ pc[r][i] = "recv"
    /\ CanRecv(feed[r][i - 1])
    /\ feed' = [feed EXCEPT ![r][i - 1] = ChanRest(@)]
    /\ buf' = [buf EXCEPT ![r][i] = Append(@, ChanHead(feed[r][i - 1]))]
    /\ pc' = [pc EXCEPT ![r][i] = IF Len(buf[r][i]) + 1 = bufSize THEN "flush" ELSE "recv"]
    /\ UNCHANGED <<construction, normalizer, config, Errs, e, door, run, closed, hold, pidx, recvd, err, ret>>

\* After the loop: if i != 0, the items left in buf are sent; then return nil.
\* (Changed: the items left in buf are not sent.)
AfterBreak_return(b) == "return"

AfterBreak(b) == IF Len(b) /= 0 THEN "drain" ELSE "return"

\* v := <-src on the closed and drained src: v == nil, break.
Buf_break(r, i) ==
    /\ i \in Conduits
    /\ KindAt(i) = "BufConduit"
    /\ pc[r][i] = "recv"
    /\ Drained(feed[r][i - 1], closed[r][i - 1])
    /\ pc' = [pc EXCEPT ![r][i] = AfterBreak(buf[r][i])]
    /\ UNCHANGED <<construction, normalizer, config, batch, Errs, e, door, run, feed, closed, hold, pidx, recvd, err, ret>>

\* trg <- buf[j] in either loop; after the last item of a full buffer
\* i = 0 and Conduct receives again.
Buf_send(r, i) ==
    /\ i \in Conduits
    /\ KindAt(i) = "BufConduit"
    /\ pc[r][i] \in {"flush", "drain"}
    /\ buf[r][i] /= <<>>
    /\ CanSend(feed[r][i])
    /\ feed' = [feed EXCEPT ![r][i] = ChanSend(@, Head(buf[r][i]))]
    /\ buf' = [buf EXCEPT ![r][i] = Tail(@)]
    /\ pc' = [pc EXCEPT ![r][i] =
                 IF Len(buf[r][i]) = 1
                 THEN (IF @ = "flush" THEN "recv" ELSE "return")
                 ELSE @]
    /\ UNCHANGED <<construction, normalizer, config, Errs, e, door, run, closed, hold, pidx, recvd, err, ret>>

\* return nil, and the deferred close(trg) ends the goroutine.
Buf_return(r, i) ==
    /\ i \in Conduits
    /\ KindAt(i) = "BufConduit"
    /\ pc[r][i] = "return"
    /\ err' = [err EXCEPT ![r][i] = "nil"]
    /\ closed' = CloseFeed(r, i)
    /\ pc' = [pc EXCEPT ![r][i] = "done"]
    /\ UNCHANGED <<construction, normalizer, config, batch, Errs, e, door, run, feed, hold, pidx, recvd, ret>>

----------------------------------------------------------------------------
\* Unbuffered channels (ch.sz = 0): a send completes together with the
\* receive that takes its item.

\* Stage j of run r is at a send on its channel.
Offers(r, j) ==
    IF j = Prod THEN pc[r][j] = "produce" /\ pidx[r] < Len(src)
    ELSE IF KindAt(j) = "BufConduit"
         THEN pc[r][j] \in {"flush", "drain"} /\ buf[r][j] /= <<>>
         ELSE pc[r][j] = "send"

\* The item of that send.
Offered(r, j) ==
    IF j = Prod THEN src[pidx[r] + 1]
    ELSE IF KindAt(j) = "BufConduit" THEN Head(buf[r][j])
    ELSE Conduct_fn(KindAt(j), hold[r][j])

\* Stage k of run r is at a receive on its src.
\* (Changed: no stage is ever found at its receive.)
Takes_never(r, k) == FALSE

Takes(r, k) == IF k = Cons THEN pc[r][k] = "consume" ELSE pc[r][k] = "recv"

\* trg <- v of stage j and v := <-src of stage j + 1 on channel j, in one
\* step: either goroutine goes on as after its send or receive.
Rendezvous(r, j) ==
    LET k == j + 1
        v == Offered(r, j)
        sendsBuf == j /= Prod /\ KindAt(j) = "BufConduit"
        takesBuf == k /= Cons /\ KindAt(k) = "BufConduit"
        pcW == IF j = Prod THEN "produce"
               ELSE IF sendsBuf
                    THEN (IF Len(buf[r][j]) = 1
                          THEN (IF pc[r][j] = "flush" THEN "recv" ELSE "return")
                          ELSE pc[r][j])
                    ELSE "recv"
        pcR == IF k = Cons THEN "consume"
               ELSE IF takesBuf
                    THEN (IF Len(buf[r][k]) + 1 = bufSize THEN "flush" ELSE "recv")
                    ELSE "send"
    IN  /\ j \in Feeds
        /\ sz = 0
        /\ ~closed[r][j]
        /\ Offers(r, j)
        /\ Takes(r, k)
        /\ pc' = [pc EXCEPT ![r][j] = pcW, ![r][k] = pcR]
        /\ pidx' = [pidx EXCEPT ![r] = IF j = Prod THEN @ + 1 ELSE @]
        /\ hold' = [hold EXCEPT ![r][j] = 0,
                                ![r][k] = IF k /= Cons /\ ~takesBuf THEN v ELSE @]
        /\ buf' = [buf EXCEPT ![r][j] = IF sendsBuf THEN Tail(@) ELSE @,
                              ![r][k] = IF takesBuf THEN Append(@, v) ELSE @]
        /\ recvd' = [recvd EXCEPT ![r] = IF k = Cons THEN Append(@, v) ELSE @]
        /\ UNCHANGED <<construction, normalizer, config, Errs, e, door, run, feed, closed, err, ret>>

----------------------------------------------------------------------------
\* The Consumer, on the goroutine of Run.

\* for v := range src: an item arrives; the Consumer records it, or returns
\* an error.
Consume_recv(r) ==
    /\ pc[r][Cons] = "consume"
    /\ CanRecv(feed[r][N])
    /\ feed' = [feed EXCEPT ![r][N] = ChanRest(@)]
    /\ \E failed \in BOOLEAN :
          /\ pc' = [pc EXCEPT ![r][Cons] = IF failed THEN AfterError(Cons) ELSE @]
          /\ recvd' = [recvd EXCEPT ![r] = IF failed THEN @ ELSE Append(@, ChanHead(feed[r][N]))]
          /\ err' = [err EXCEPT ![r][Cons] = IF failed THEN "error" ELSE @]
    /\ UNCHANGED <<construction, normalizer, config, batch, Errs, e, door, run, closed, hold, pidx, ret>>

\* What Run returns, given ch.e.
\* (Changed: Run returns nil whatever ch.e is.)
RunResult_alwaysNil(flag) == "nil"

RunResult(flag) == IF flag THEN "Errors occurred" ELSE "nil"

\* the range loop ends; Consume returns nil, cerr is nil, and Run returns
\* by the value of ch.e (read without the lock).
Consume_return(r) ==
    /\ pc[r][Cons] = "consume"
    /\ Drained(feed[r][N], closed[r][N])
    /\ err' = [err EXCEPT ![r][Cons] = "nil"]
    /\ ret' = [ret EXCEPT ![r] = RunResult(e)]
    /\ pc' = [pc EXCEPT ![r][Cons] = "returned"]
    /\ UNCHANGED <<construction, normalizer, config, batch, Errs, e, door, run, feed, closed, hold, pidx, recvd>>

\* after addErr(cerr): if (ch.e) return errors.New("Errors occurred"); return nil
Run_return(r) ==
    /\ pc[r][Cons] = "check"
    /\ ret' = [ret EXCEPT ![r] = RunResult(e)]
    /\ pc' = [pc EXCEPT ![r][Cons] = "returned"]
    /\ UNCHANGED <<construction, normalizer, config, batch, Errs, e, door, run, feed, closed, hold, pidx, recvd, err>>

----------------------------------------------------------------------------
\* A step of the goroutines of run r.
Step(r) ==
    \/ Run_start(r)
    \/ Produce_send(r)
    \/ Produce_return(r)
    \/ Produce_fail(r)
    \/ \E i \in Conduits : Conduct_recv(r, i)
    \/ \E i \in Conduits : Conduct_send(r, i)
    \/ \E i \in Conduits : Conduct_return(r, i)
    \/ Consume_recv(r)
    \/ Consume_return(r)
    \/ \E i \in Stages : addErr_lock(r, i)
    \/ \E i \in Stages : addErr_set(r, i)
    \/ \E i \in Stages : addErr_append(r, i)
    \/ \E i \in Feeds : close(r, i)
    \/ Run_return(r)

\* One call of Run.
Next == Run_first \/ Step(1)

Spec == Init /\ [][Next]_vars

\* The Go scheduler runs every goroutine that can take a step.
FairSpec == InitFair /\ [][Next]_vars /\ WF_vars(Next)

\* Run called up to MaxRuns times in sequence on the same Chain.
NextRerun == Run_first \/ Run_again \/ \E r \in Runs : Step(r)

SpecRerun == InitRerun /\ [][NextRerun]_vars

\* One call of Run in which a make of a channel may yield nil.
NextAlloc == Run_first \/ (\E j \in Feeds : Run_allocFail(1, j)) \/ Step(1)

SpecAlloc == Init /\ [][NextAlloc]_vars

\* A call of NewChain, and one call of Run on the Chain it returned.
NextNew == NewChain_call \/ (ch = "Chain" /\ Next)

SpecNew == InitNew /\ [][NextNew]_vars

\* A Utf8Conduit and the reader of its trg,
NextUtf8 ==
    \/ Utf8_addLeftOver
    \/ Utf8_send
    \/ Utf8_storeLeftOver
    \/ Utf8_return
    \/ Utf8_recv

\* fed a valid text
SpecUtf8Text == InitUtf8Text /\ [][NextUtf8]_vars

\* or any bytes,
SpecUtf8Bytes == InitUtf8Bytes /\ [][NextUtf8]_vars

\* or any bytes with an empty chunk among the chunks.
SpecUtf8Empty == InitUtf8Empty /\ [][NextUtf8]_vars

\* One call of Run on a Chain whose Conduits change the items.
SpecCompose == InitCompose /\ [][Next]_vars

\* One call of Run on a Chain of BaseConduits and BufConduits.
NextBuf ==
    \/ Next
    \/ \E i \in Conduits : Buf_recv(1, i)
    \/ \E i \in Conduits : Buf_break(1, i)
    \/ \E i \in Conduits : Buf_send(1, i)
    \/ \E i \in Conduits : Buf_return(1, i)

SpecBuf == InitBuf /\ [][NextBuf]_vars

\* One call of Run on a Chain with sz = 0, BaseConduits and BufConduits, and
\* a Producer and a Consumer that return no error.
NextZero ==
    \/ Run_first
    \/ Run_start(1)
    \/ \E j \in Feeds : Rendezvous(1, j)
    \/ Produce_return(1)
    \/ \E i \in Conduits : Conduct_return(1, i)
    \/ \E i \in Conduits : Buf_break(1, i)
    \/ \E i \in Conduits : Buf_return(1, i)
    \/ Consume_return(1)

FairSpecZero == InitZero /\ [][NextZero]_vars /\ WF_vars(NextZero)

----------------------------------------------------------------------------
\* Vocabulary of the properties.

\* s is an initial part of t.
IsPrefix(s, t) == Len(s) <= Len(t) /\ SubSeq(t, 1, Len(s)) = s

\* The multiset of the items of a sequence.
SeqToBag(s) == [x \in {s[k] : k \in DOMAIN s} |-> Cardinality({k \in DOMAIN s : s[k] = x})]

\* The items the Producer of run r has emitted so far.
Emitted(r) == SubSeq(src, 1, pidx[r])

\* Run has returned from call r.
Returned(r) == pc[r][Cons] = "returned"

\* The body of stage i of run r has returned.
BodyReturned(r, i) == err[r][i] /= "running"

\* No stage body of run r has returned an error.
NoError(r) == \A i \in Stages : err[r][i] /= "error"

\* No Conduit of run r has returned an error: all have passed on every item.
PassThrough(r) == \A i \in Conduits : err[r][i] /= "error"

\* The entry addErr appends for the error of stage i of run r.
ErrOf(r, i) == [run |-> r, stage |-> i]

\* The items of run r that are past channel i and not yet consumed, oldest
\* first: what channels j..i buffer and what the Conduits between them hold.
RECURSIVE InFlight(_, _, _)
InFlight(r, j, i) ==
    IF j < i THEN <<>>
    ELSE feed[r][j] \o
         (IF j > i
          THEN (IF pc[r][j] = "send" THEN <<hold[r][j]>> ELSE <<>>) \o InFlight(r, j - 1, i)
          ELSE <<>>)

\* The items stage i of run r has written to its output channel, while the
\* stages after it pass every item through: those consumed and those in flight.
Written(r, i) == recvd[r] \o InFlight(r, N, i)

\* No stage of run r after stage i has returned an error.
DownstreamOK(r, i) == \A j \in (i + 1)..(N + 1) : err[r][j] /= "error"

----------------------------------------------------------------------------
\* C1. Order preservation: while every Conduit passes its items through, the
\* items the Consumer has received are, in order, the first items the
\* Producer emitted, in every state of every interleaving, for every
\* capacity and every number of Conduits.
C1_OrderPreserved ==
    \A r \in Runs : PassThrough(r) => IsPrefix(recvd[r], Emitted(r))

\* A run of two pass-through Conduits delivered three items, more than the
\* capacity, and returned.
C1_Witness ==
    /\ Returned(1) /\ NoError(1)
    /\ N = 2 /\ Len(src) = 3 /\ sz = 2
    /\ recvd[1] = src

\* C2. No loss, no duplication: when Run returns and no stage of the Chain
\* has returned an error (its Conduits pass every item through), the multiset
\* of the items received is the multiset of the items emitted, all of src
\* was emitted, Errs is empty and Run returns nil.
C2_NoLossNoDup ==
    \A r \in Runs :
        (Returned(r) /\ run = r /\ \A q \in Runs : NoError(q)) =>
            /\ SeqToBag(recvd[r]) = SeqToBag(Emitted(r))
            /\ pidx[r] = Len(src)
            /\ Errs = <<>>
            /\ ret[r] = "nil"

\* The run had more items than the capacity, and not a multiple of it.
C2_Witness ==
    /\ Returned(1) /\ NoError(1)
    /\ Len(src) > sz /\ Len(src) % sz /= 0
    /\ Len(recvd[1]) = Len(src)

\* C3. Join: whenever Run has returned, the Producer body and every Conduit
\* body of that run have returned.
C3_RunJoinsStages ==
    \A r \in Runs : Returned(r) => \A i \in Feeds : BodyReturned(r, i)

\* C4. Error isolation: with one Conduit, and a Producer and a Consumer that
\* do not fail, a run that has returned has returned nil with an empty Errs
\* and all items received in order, or has returned "Errors occurred" with
\* the Conduit's error as the only entry of Errs; and Run returns.
C4_Outcomes ==
    (N = 1 /\ Returned(1) /\ err[1][Prod] /= "error" /\ err[1][Cons] /= "error") =>
        \/ /\ err[1][1] = "nil"
           /\ ret[1] = "nil"
           /\ Errs = <<>>
           /\ recvd[1] = src
        \/ /\ err[1][1] = "error"
           /\ ret[1] = "Errors occurred"
           /\ Errs = <<ErrOf(1, 1)>>

C4_ErrorIsolation == [](C4_Outcomes) /\ <>(Returned(1))

\* The Conduit failed with items still to come, and Run returned the failure.
C4_Witness ==
    /\ N = 1 /\ Returned(1)
    /\ err[1][1] = "error" /\ err[1][Prod] /= "error" /\ err[1][Cons] = "nil"
    /\ ret[1] = "Errors occurred" /\ Len(Errs) = 1
    /\ Len(recvd[1]) >= 1 /\ Len(recvd[1]) < Len(src)

\* C5. Complete error log at return: once Run has returned, every error a
\* stage body of the run has returned is in Errs, and Errs changes no more.
C5_ErrsFinalAtReturn ==
    [][Returned(1) =>
         /\ \A i \in Stages : err[1][i] = "error" => \E k \in DOMAIN Errs : Errs[k] = ErrOf(1, i)
         /\ Errs' = Errs]_vars

\* C6. Run's result matches the log: at the step in which Run returns, it
\* returns "Errors occurred" exactly if Errs is not empty.
C6_ResultMatchesLog ==
    [][\A r \in Runs :
         (~Returned(r) /\ Returned(r)') =>
             ((ret'[r] = "Errors occurred") <=> (Errs' /= <<>>))]_vars

\* C7. Clean error state per run: every entry of Errs is an error of a stage
\* of the current run, and a run without a failing stage returns nil.
C7_CleanErrorState ==
    /\ \A k \in DOMAIN Errs : Errs[k].run = run
    /\ \A r \in Runs : (Returned(r) /\ NoError(r)) => ret[r] = "nil"

\* C8. Closure propagation: once the body of the Producer or of a Conduit
\* has returned, nil or an error, its output channel gets closed.  A body
\* that has returned and a channel that is closed stay so; so the claim is
\* that from some point on every returned body has its channel closed.
C8_ClosurePropagation ==
    <>[](\A j \in Feeds : BodyReturned(1, j) => closed[1][j])

\* A Conduit and the Producer returned an error, and their channels are closed.
C8_Witness ==
    /\ N >= 1
    /\ err[1][Prod] = "error" /\ closed[1][0]
    /\ err[1][N] = "error" /\ closed[1][N]

\* C9. Every stage terminates: the bodies of the Producer, of every Conduit
\* and of the Consumer all return in the end.
C9_EveryStageTerminates ==
    <>(\A i \in Stages : BodyReturned(1, i))

\* C10. Run terminates: under fair scheduling Run returns in the end, for
\* every capacity, number of Conduits and combination of failing Conduits
\* (and so when the Consumer reads until its source is closed and drained).
C10_RunTerminates == <>(Returned(1))

\* Run returned to a Consumer that drained its source, behind one Conduit
\* that failed and one that did not, with more items than the capacity.
C10_Witness ==
    /\ Returned(1) /\ err[1][Cons] = "nil"
    /\ N = 2 /\ err[1][1] = "error" /\ err[1][2] = "nil"
    /\ Len(src) > sz

\* C11. Producer failure: when Produce has returned an error after emitting
\* k items, the Conduits pass every item through and the Consumer reads until
\* closure, then at the return of Run the Consumer has received exactly those
\* k items in order, the first channel is closed, the error is in Errs once
\* (and alone), and Run has returned the failure.
C11_ProducerFailure ==
    (/\ Returned(1)
     /\ err[1][Prod] = "error"
     /\ \A i \in Conduits : err[1][i] = "nil"
     /\ err[1][Cons] = "nil") =>
        /\ recvd[1] = Emitted(1)
        /\ closed[1][0]
        /\ Errs = <<ErrOf(1, Prod)>>
        /\ ret[1] = "Errors occurred"

\* The Producer failed after some but not all items, behind it a Conduit.
C11_Witness ==
    /\ Returned(1) /\ err[1][Prod] = "error" /\ err[1][Cons] = "nil"
    /\ N >= 1 /\ \A i \in Conduits : err[1][i] = "nil"
    /\ pidx[1] >= 1 /\ pidx[1] < Len(src)
    /\ Len(recvd[1]) = pidx[1]

\* C12. Graceful drain downstream of a failure: once a Conduit has failed,
\* the items it has written are fixed, and while no later stage fails every
\* step keeps them, in order, among the items consumed and in flight; when
\* Run returns, every channel from the failed Conduit on is closed and
\* empty and every later stage has returned nil, so that the Consumer has
\* received exactly the items the failed Conduit had written.
C12_Delivered ==
    \A i \in Conduits :
        (Returned(1) /\ err[1][i] = "error" /\ DownstreamOK(1, i)) =>
            /\ \A j \in i..N : closed[1][j] /\ feed[1][j] = <<>>
            /\ \A j \in (i + 1)..(N + 1) : err[1][j] = "nil"
            /\ recvd[1] = Written(1, i)

C12_Kept ==
    \A i \in Conduits :
        (err[1][i] = "error" /\ DownstreamOK(1, i)') => Written(1, i)' = Written(1, i)

C12_GracefulDrain == [](C12_Delivered) /\ [][C12_Kept]_vars

\* The first of two Conduits failed after it had written items; the second
\* and the Consumer ended at closure with the items written.
C12_Witness ==
    /\ Returned(1) /\ N = 2
    /\ err[1][1] = "error" /\ err[1][2] = "nil" /\ err[1][Cons] = "nil"
    /\ Len(recvd[1]) >= 1 /\ Len(recvd[1]) < pidx[1]

\* The item the Consumer gets for the item x of the Producer: x taken through
\* the first k Conduits of the pipe, in the order of the pipe.
RECURSIVE Through(_, _)
Through(k, x) == IF k = 0 THEN x ELSE Conduct_fn(pipe[k], Through(k - 1, x))

\* C13. Stage composition order: while no Conduit has failed, the Consumer
\* has received, in the order of the Producer, f_n(..f_1(x)..) for the first
\* items x of the Producer; when Run returns and no stage has failed it has
\* received that for every item, and Errs is empty; with the one Conduit
\* x * x over 0, 1, .., n - 1 that is 0, 1, 4, .., (n - 1)^2.
C13_CompositionOrder ==
    /\ PassThrough(1) =>
          /\ Len(recvd[1]) <= pidx[1]
          /\ \A k \in DOMAIN recvd[1] : recvd[1][k] = Through(N, src[k])
    /\ (Returned(1) /\ NoError(1)) =>
          /\ Len(recvd[1]) = Len(src)
          /\ Errs = <<>>
          /\ pipe = <<"SqrConduit">> => recvd[1] = [k \in DOMAIN src |-> (k - 1) * (k - 1)]

\* Two different Conduits, whose order matters for the item 1, have run to
\* the end.
C13_Witness ==
    /\ Returned(1) /\ NoError(1)
    /\ N = 2 /\ pipe[1] /= pipe[2]
    /\ Len(src) >= 2 /\ Len(recvd[1]) = Len(src)

C15_ConstructionCheck ==
    /\ ch = "none" => run = 0
    /\ ch /= "none" =>
          IF args.p = "nil" \/ args.c = "nil"
          THEN ch = "nil" /\ run = 0
          ELSE /\ ch = "Chain"
               /\ pipe = args.pipe
               /\ sz = args.sz
               /\ run = 0 => Errs = <<>> /\ ~e

\* NewChain was called with a Producer, a Conduit and no Consumer.
C15_Witness ==
    /\ ch = "nil"
    /\ args.p = "Producer" /\ args.c = "nil" /\ Len(args.pipe) = 1

\* The bytes of a sequence of chunks, one after the other.
RECURSIVE Flatten(_)
Flatten(chunks) == IF chunks = <<>> THEN <<>> ELSE Head(chunks) \o Flatten(Tail(chunks))

\* The bytes are complete valid characters, one after the other.
RECURSIVE WholeChars(_)
WholeChars(bytes) ==
    \/ bytes = <<>>
    \/ /\ ValidAt(bytes)
       /\ WholeChars(SubSeq(bytes, Need(bytes[1]) + 1, Len(bytes)))

\* What a reader finds now in the chunks that are still on trg.
OnTrg == [k \in DOMAIN out |-> Value(out[k])]

\* Conduct has returned and every chunk it sent has been received.
Utf8Done == upc = "done" /\ out = <<>>

\* No valid encoding begins anywhere in the bytes.
NoValid(bytes) == \A k \in DOMAIN bytes : ~ValidAt(SubSeq(bytes, k, Len(bytes)))

\* C16. Normalizer round-trip: for a valid text, cut into chunks in any way,
\* the chunks received from the Utf8Conduit, once its input is closed and it
\* has returned, are together exactly the bytes of the text.
C16_RoundTrip == Utf8Done => Flatten(got) = orig

\* C17. Only whole characters: for a valid text, cut into chunks in any
\* way, every chunk received from the Utf8Conduit is a sequence of complete
\* valid characters.
C17_WholeCharsOnly == \A k \in DOMAIN got : WholeChars(got[k])

\* C18. Content preservation for any input: for any bytes, cut into chunks
\* in any way, once Conduct has returned the chunks it has sent, received
\* or still on trg, are together exactly the bytes of the input.
C18_ContentPreserved == upc = "done" => Flatten(got \o OnTrg) = orig

\* C19. Invalid-input containment: for UTFMax or more bytes among which no
\* valid encoding begins, cut into chunks in any way, Conduct does not
\* panic, and when it has returned it has sent the marker u.inv and holds no
\* leftover.
C19_InvalidContained ==
    (NoValid(orig) /\ Len(orig) >= UTFMax) =>
        /\ upc /= "panic"
        /\ upc = "done" => /\ \E k \in DOMAIN (got \o OnTrg) : (got \o OnTrg)[k] = inv
                           /\ idx = 0

\* C20. Bounded leftover: for any bytes, cut into chunks in any way, u.idx
\* is at most UTFMax - 1 after every chunk, it has never been UTFMax, not
\* even inside addLeftOver, and no write has gone beyond u.lo.
C20_BoundedLeftover ==
    /\ idx <= UTFMax - 1
    /\ peak <= UTFMax - 1
    /\ upc /= "panic"

\* Three bytes were left over, and a fourth byte resolved them.
C20_Witness ==
    /\ peak = UTFMax - 1 /\ idx = 0
    /\ Utf8Done /\ Len(orig) = MaxBytes

\* C21. Items are transferred, not shared: the bytes a reader finds in a
\* chunk that Utf8Conduit has sent are the bytes the chunk had when it was
\* sent, whatever Utf8Conduit has done in the meantime; here for the chunks
\* received, which are the first of the chunks sent.
C21_NotShared ==
    /\ Len(got) <= Len(sent)
    /\ \A k \in DOMAIN got : got[k] = sent[k]

\* The bytes that have left Conduct for good: the chunks sent and, after
\* them, the leftover it holds.
Kept == Flatten(sent) \o SubSeq(lo, 1, idx)

\* The bytes of the chunks Conduct has taken from src.
Taken == SubSeq(orig, 1, Len(orig) - Len(Flatten(inp)))

\* C30. Byte conservation: for any bytes, cut into chunks in any way, after
\* every chunk the chunks sent so far, with the bytes they had when sent,
\* followed by the leftover u.lo[0..u.idx) are the bytes of the chunks
\* received so far.
C30_Conservation == upc \in {"range", "done"} => Kept = Taken

\* Conduct has sent a character completed from a leftover and a chunk of
\* its own, holds a leftover again, and has chunks still to take.
C30_Witness ==
    /\ upc = "range" /\ inp /= <<>>
    /\ idx >= 1 /\ Len(sent) >= 2
    /\ Kept = Taken

\* The bytes are one complete valid character and no more.
CompleteChar(p) == ValidAt(p) /\ Need(p[1]) = Len(p)

\* The bytes are the beginning of a valid character, not all of it.
PartialChar(p) ==
    /\ p /= <<>>
    /\ Len(p) < Need(p[1])
    /\ Len(p) >= 2 => p[2] \in Accept(p[1])
    /\ Len(p) >= 3 => IsCont(p[3])

\* Conduct takes the next chunk from src and calls addLeftOver on it.
TakesChunk == upc = "range" /\ inp /= <<>> /\ inp' = Tail(inp)

\* C26. Completion phase: when Conduct holds k >= 1 leftover bytes and
\* takes a chunk whose first m bytes complete the character, addLeftOver
\* has the k + m bytes of that character, and nothing else, as the chunk to
\* send next, before anything of the new chunk is sent, sets u.idx to 0 and
\* leaves bs[m:] to be processed; the send that follows sends exactly that
\* chunk.  When the chunk ends before the character is complete, all its
\* bytes are added to the leftover and nothing is sent for the chunk.
C26_CompletionStep ==
    LET pre == SubSeq(lo, 1, idx)
        c   == Head(inp)
    IN  /\ (TakesChunk /\ idx >= 1) =>
              /\ \A m \in 1..Len(c) :
                    CompleteChar(pre \o SubSeq(c, 1, m)) =>
                        /\ upc' = "send_tmp"
                        /\ tmp' = <<LoSlice(idx + m)>>
                        /\ SubSeq(lo', 1, idx + m) = pre \o SubSeq(c, 1, m)
                        /\ idx' = 0
                        /\ b2' = SubSeq(c, m + 1, Len(c))
                        /\ sent' = sent /\ out' = out
              /\ PartialChar(pre \o c) =>
                    /\ upc' = "store"
                    /\ tmp' = <<>> /\ b2' = <<>>
                    /\ idx' = idx + Len(c)
                    /\ SubSeq(lo', 1, idx') = pre \o c
                    /\ sent' = sent /\ out' = out
        /\ (upc = "send_tmp" /\ upc' /= "send_tmp") =>
              /\ upc' = "store"
              /\ sent' = Append(sent, SubSeq(lo, 1, tmp[1].len))
              /\ UNCHANGED <<lo, idx, b2>>
        /\ (upc = "store" /\ b2 = <<>> /\ upc' /= "store") =>
              /\ upc' = "range"
              /\ UNCHANGED <<lo, idx, sent, out, tmp>>

C26_Completion == [][C26_CompletionStep]_vars

\* A character of four bytes, two of them left over and two from a chunk
\* that goes on after them, is about to be sent.
C26_Witness ==
    /\ upc = "send_tmp" /\ tmp /= <<>>
    /\ tmp[1].ref = "lo" /\ tmp[1].len = UTFMax
    /\ CompleteChar(Value(tmp[1]))
    /\ Len(bs0) - Len(b2) = 2
    /\ b2 /= <<>>

\* C27. Empty chunk: when Conduct takes an empty chunk, addLeftOver and
\* storeLeftOver send nothing and leave u.lo and u.idx as they are, with a
\* leftover held or without, and Conduct sends nothing for the chunk.
C27_EmptyStep ==
    /\ (TakesChunk /\ Head(inp) = <<>>) =>
          /\ upc' = "store"
          /\ bs0' = <<>> /\ b2' = <<>> /\ tmp' = <<>>
          /\ UNCHANGED <<lo, idx, sent, out>>
    /\ (upc = "store" /\ bs0 = <<>> /\ upc' /= "store") =>
          /\ upc' = "range"
          /\ UNCHANGED <<lo, idx, sent, out, tmp>>

C27_EmptyChunk == [][C27_EmptyStep]_vars

\* Conduct is at storeLeftOver with an empty chunk, holds a leftover, and
\* has chunks still to come.
C27_Witness ==
    /\ upc = "store" /\ bs0 = <<>>
    /\ idx >= 1 /\ inp /= <<>>

\* C22. Bounded Feeds and backpressure: a run has n + 1 channels for n
\* Conduits, channel j - 1 before and channel j behind Conduit j; every
\* channel holds at most sz items in every state; a channel gains an item
\* only in a step that began with fewer than sz items in it, so that a
\* Conduit at its send stays there while its channel is full; and a stage
\* at its receive does not move while its channel is empty and not closed.
C22_Bounded ==
    \A r \in Runs :
        /\ DOMAIN feed[r] = 0..N
        /\ Cardinality(DOMAIN feed[r]) = N + 1
        /\ \A j \in Feeds : Len(feed[r][j]) <= sz

C22_Step ==
    \A j \in Feeds :
        /\ Len(feed[1][j])' > Len(feed[1][j]) => Len(feed[1][j]) < sz
        /\ (pc[1][j] = "send" /\ Len(feed[1][j]) = sz) =>
              /\ pc[1][j]' = "send"
              /\ hold[1][j]' = hold[1][j]
        /\ (pc[1][j + 1] \in {"recv", "consume"} /\ feed[1][j] = <<>> /\ ~closed[1][j]) =>
              /\ pc[1][j + 1]' = pc[1][j + 1]
              /\ hold[1][j + 1]' = hold[1][j + 1]
              /\ err[1][j + 1]' = err[1][j + 1]
              /\ j = N => recvd[1]' = recvd[1]

C22_Backpressure == [](C22_Bounded) /\ [][C22_Step]_vars

\* The channel of the Producer is full, the first Conduit holds an item it
\* cannot send since its channel is full, and the channel of the Consumer
\* is empty and open: the Consumer waits.
C22_Witness ==
    /\ N = 2 /\ pc[1][Prod] = "produce"
    /\ Len(feed[1][0]) = sz
    /\ pc[1][1] = "send" /\ Len(feed[1][1]) = sz
    /\ pc[1][Cons] = "consume" /\ feed[1][N] = <<>> /\ ~closed[1][N]

\* The goroutines that are inside a mutation of the error state: a stage in
\* addErr between door.Lock() and door.Unlock(), a Run between the two
\* assignments of reset.
Mutators ==
    {ri \in Runs \X Stages : pc[ri[1]][ri[2]] \in {"set_e", "append", "reset"}}

\* C23. ErrorLog mutual exclusion: at most one goroutine at a time is inside
\* a mutation of ch.Errs and ch.e, be it the append of addErr or the
\* clearing of reset.
C23_MutualExclusion == Cardinality(Mutators) <= 1

\* The items of a sequence.
Elems(s) == {s[k] : k \in DOMAIN s}

\* The items of run r that have not passed stage i: those the Producer has
\* still to emit, those in the channels before stage i and those held by
\* the Conduits before it.
Upstream(r, i) ==
    Elems(SubSeq(src, pidx[r] + 1, Len(src)))
        \cup UNION {Elems(feed[r][j]) : j \in 0..(i - 1)}
        \cup {hold[r][j] : j \in {k \in 1..(i - 1) : pc[r][k] = "send"}}

\* Stage j of run r has not been stopped from outside: it has ended only by
\* the return of its own body, and its channel is closed only at its end.
OwnEnd(r, j) ==
    /\ pc[r][j] \in {"addErr", "set_e", "append", "close", "done"} => BodyReturned(r, j)
    /\ closed[r][j] => pc[r][j] = "done"

\* C25. Upstream of a failure is not cancelled: the step in which a Conduit
\* fails and every step after it leave the stages before it to themselves
\* (a stage before it moves only by receiving, sending, or the return of its
\* own body, and sends whenever its channel is not full), and the items the
\* failed Conduit has not forwarded, those before it and those the Producer
\* has still to emit, never reach the Consumer: nothing is added to what is
\* behind the failed Conduit.
C25_State ==
    \A i \in Conduits :
        err[1][i] = "error" =>
            /\ Elems(recvd[1]) \cap Upstream(1, i) = {}
            /\ \A j \in 0..(i - 1) :
                  /\ OwnEnd(1, j)
                  /\ (pc[1][j] = "send" /\ Len(feed[1][j]) < sz) => ENABLED Conduct_send(1, j)
                  /\ (pc[1][j] = "produce" /\ pidx[1] < Len(src) /\ Len(feed[1][j]) < sz)
                        => ENABLED Produce_send(1)

C25_Step ==
    \A i \in Conduits :
        /\ (err[1][i] = "running" /\ err[1][i]' = "error") =>
              \A j \in 0..(i - 1) :
                  /\ pc[1][j]' = pc[1][j] /\ err[1][j]' = err[1][j]
                  /\ closed[1][j]' = closed[1][j] /\ hold[1][j]' = hold[1][j]
        /\ err[1][i] = "error" =>
              /\ Elems(Written(1, i))' \subseteq Elems(Written(1, i))
              /\ Len(Written(1, i))' <= Len(Written(1, i))

C25_UpstreamNotCancelled == [](C25_State) /\ [][C25_Step]_vars

\* The Conduit failed at the first item; the Producer went on to fill its
\* channel and has an item left that it cannot send, and Run has returned
\* with nothing delivered.
C25_Witness ==
    /\ N = 1 /\ err[1][1] = "error" /\ pc[1][1] = "done"
    /\ pc[1][Prod] = "produce" /\ pidx[1] < Len(src)
    /\ Len(feed[1][0]) = sz
    /\ Returned(1) /\ recvd[1] = <<>>

\* C28. Feed write/close discipline: a channel is closed only by the
\* goroutine of its writer, in the step that ends that goroutine and after
\* the body of the writer has returned; a closed channel stays closed, is
\* never closed again and never gains an item; and when the goroutine of a
\* writer has ended, its channel is closed.
C28_State ==
    \A j \in Feeds :
        /\ closed[1][j] <=> pc[1][j] = "done"
        /\ closed[1][j] => BodyReturned(1, j)

C28_Step ==
    \A j \in Feeds :
        /\ (~closed[1][j] /\ closed[1][j]') =>
              /\ pc[1][j] \in {"produce", "recv", "close"}
              /\ pc[1][j]' = "done"
              /\ BodyReturned(1, j)'
              /\ \A k \in Feeds \ {j} : closed[1][k]' = closed[1][k]
        /\ closed[1][j] =>
              /\ closed[1][j]'
              /\ pc[1][j]' = "done"
              /\ Len(feed[1][j])' <= Len(feed[1][j])
        /\ Len(feed[1][j])' > Len(feed[1][j]) =>
              /\ pc[1][j] \in {"produce", "send"}
              /\ ~closed[1][j]

C28_CloseDiscipline == [](C28_State) /\ [][C28_Step]_vars

\* Of two Conduits the first has failed and closed its channel with an item
\* in it, after the Producer had returned and closed its own; the second
\* Conduit is still running.
C28_Witness ==
    /\ N = 2
    /\ err[1][Prod] = "nil" /\ closed[1][0]
    /\ err[1][1] = "error" /\ closed[1][1] /\ feed[1][1] /= <<>>
    /\ ~closed[1][2]

\* The Producer and the Conduits of run r that have failed and completed:
\* their goroutine has ended and closed its channel.
FailedAndClosed(r) == {j \in Feeds : closed[r][j] /\ err[r][j] = "error"}

\* C29. Error logged before closure becomes visible: when the channel of a
\* Producer or Conduit that failed is closed, its error is in Errs and ch.e
\* is set; so when the Consumer has observed the closure of the last
\* channel and Run has returned, the error of every stage that has
\* completed is in Errs, and Run has returned "Errors occurred" if there is
\* one.
C29_LoggedBeforeClose ==
    /\ \A j \in FailedAndClosed(1) : ErrOf(1, j) \in Elems(Errs) /\ e
    /\ (Returned(1) /\ err[1][Cons] = "nil") =>
          /\ closed[1][N]
          /\ FailedAndClosed(1) /= {} => ret[1] = "Errors occurred"
          /\ \A j \in Feeds :
                (\A k \in (j + 1)..N : err[1][k] = "nil") =>
                    /\ closed[1][j]
                    /\ err[1][j] = "error" => ErrOf(1, j) \in Elems(Errs)

\* The Producer failed, two Conduits read until closure, and the Consumer
\* has observed the closure of the last channel: Run has returned the
\* failure.
C29_Witness ==
    /\ N = 2 /\ Returned(1) /\ err[1][Cons] = "nil"
    /\ err[1][Prod] = "error" /\ err[1][1] = "nil" /\ err[1][2] = "nil"
    /\ Errs = <<ErrOf(1, Prod)>> /\ ret[1] = "Errors occurred"

\* C24. Re-batching stage: in a chain of BaseConduits and BufConduits, with
\* no failing stage, a BufConduit holds fewer than bufSize items while it
\* receives, sends a batch only when it has collected bufSize items or
\* when its src is closed and drained, and the Consumer receives the items
\* of the Producer in their order, each once: at any time the first of
\* them, and all of them when Run has returned, whatever the number of
\* items.
C24_Rebatching ==
    /\ \A i \in Conduits :
          /\ Len(buf[1][i]) <= bufSize
          /\ pc[1][i] = "recv" => Len(buf[1][i]) < bufSize
          /\ pc[1][i] \in {"drain", "return"} => Drained(feed[1][i - 1], closed[1][i - 1])
          /\ pc[1][i] \in {"return", "done"} => buf[1][i] = <<>>
    /\ NoError(1) => IsPrefix(recvd[1], src)
    /\ (Returned(1) /\ NoError(1)) => recvd[1] = src

\* A BufConduit and a BaseConduit together have passed on more items than
\* a batch holds, and not a whole number of batches.
C24_Witness ==
    /\ Returned(1) /\ NoError(1)
    /\ N = 2 /\ pipe[1] /= pipe[2]
    /\ Len(src) > bufSize /\ Len(src) % bufSize /= 0
    /\ recvd[1] = src

\* C31. Capacity 0: a Chain with sz = 0 has channels that hold no item; with
\* Conduits that pass the items on and stages that return no error, the
\* Consumer receives the items of the Producer in their order, each once;
\* until Run has returned some goroutine can take a step; and Run
\* eventually returns, nil, with every item received, Errs empty and every
\* goroutine ended.
C31_Safe ==
    /\ sz = 0
    /\ \A j \in Feeds : feed[1][j] = <<>>
    /\ IsPrefix(recvd[1], src)
    /\ Len(recvd[1]) <= pidx[1]
    /\ ~Returned(1) => ENABLED NextZero
    /\ Returned(1) =>
          /\ ret[1] = "nil" /\ Errs = <<>> /\ ~e
          /\ recvd[1] = src
          /\ \A i \in Feeds : pc[1][i] = "done" /\ closed[1][i]

C31_CapacityZero == [](C31_Safe) /\ <>(Returned(1))

\* Run has returned after a BaseConduit and a BufConduit, on unbuffered
\* channels, passed on more items than a batch holds.
C31_Witness ==
    /\ sz = 0 /\ Returned(1)
    /\ N = 2 /\ pipe[1] /= pipe[2]
    /\ Len(src) = MaxDataZero /\ recvd[1] = src

====
